---- MODULE Spec2Model ----
(***************************************************************************)
(* Model of the acquisition-and-extraction pipeline of the crawler backend *)
(*   app/services/fetcher.py        fetch_html, is_blocked,                *)
(*                                  fetch_with_playwright,                 *)
(*                                  fetch_from_archive                     *)
(*   app/services/extractor.py      multi_strategy_extract and strategies  *)
(*   app/routers/research_routes.py extract_structured_stream.generate,    *)
(*                                  ai_refine, extract_structured          *)
(* One request is served per behaviour.  pc is the position of the request *)
(* in the code; every await / yield / library call that can raise is a     *)
(* step of its own.                                                        *)
(***************************************************************************)
EXTENDS Integers, Sequences, FiniteSets, TLC

VARIABLES
    mode,       \* "stream" (extract_structured_stream) or "sync" (extract_structured)
    client,     \* _openai_client is configured (module global, set at import)
    pc,         \* position of the request in the code
    site,       \* call site of the nested tier calls: "try" (lines 82/87) or "after" (lines 102/107)
    resp,       \* fetch_html: resp of the static GET (status_code, text)
    html,       \* fetch_html / fetch_with_playwright / fetch_from_archive: html
    verdict,    \* value returned by is_blocked at line 80
    blocked,    \* fetch_html: blocked (second component returned by fetch_with_playwright)
    attempts,   \* history: the tiers attempted by this call of fetch_html, with their outcomes
    producer,   \* history: the tier whose response the current html is
    driver,     \* async_playwright() driver: "none", "running", "stopped"
    browser,    \* browser process: "none", "open" (launched), "closed" (browser.close() done)
    context,    \* browsing context: "none", "open" (created), "closed" (context.close() done)
    pending,    \* how the inner try of fetch_with_playwright is being left: "none", "return", "raise"
    fres,       \* outcome of fetch_html as seen by its caller
    ran,        \* multi_strategy_extract: strategies run so far, in order
    cands,      \* multi_strategy_extract: (title, content) returned by each strategy run
    soupOk,     \* whether BeautifulSoup(html, "lxml") parses this html: "unknown", "ok", "raises"
    xres,       \* outcome of multi_strategy_extract as seen by its caller
    title,      \* handler local: title
    content,    \* handler local: content
    extracted,  \* history: content as returned by multi_strategy_extract
    refine,     \* history: what ai_refine did: "none", "failed", "text", "empty"
    events,     \* streaming mode: events yielded so far
    response    \* synchronous mode: the HTTP result

vars == << mode, client, pc, site, resp, html, verdict, blocked, attempts, producer,
           driver, browser, context, pending, fres, ran, cands, soupOk, xres,
           title, content, extracted, refine, events, response >>

fetchVars   == << site, resp, html, verdict, blocked, attempts, producer, fres >>
pwVars      == << driver, browser, context, pending >>
extractVars == << ran, cands, soupOk, xres >>
handlerVars == << title, content, extracted, refine, events, response >>
cfgVars     == << mode, client >>

-----------------------------------------------------------------------------
(* Bounds of the model.                                                    *)

\* Lengths tried on each side of every length threshold of the code.
Slack == 1

Around(t) == (t - Slack)..(t + Slack)

-----------------------------------------------------------------------------
(* Python strings.  A string is modelled as the characters `text' followed *)
(* by `pad' filler characters "."; `doc' names the document it was read    *)
(* from.  No block keyword contains ".", so a keyword occurs in the string *)
(* iff it occurs in `text'.                                                *)

Body(d, t, n) == [doc |-> d, text |-> t, pad |-> n - Len(t)]

EmptyBody == [doc |-> "none", text |-> << >>, pad |-> 0]

\* len(s)
str_len(s) == Len(s.text) + s.pad

UpperCs == << "A","B","C","D","E","F","G","H","I","J","K","L","M",
              "N","O","P","Q","R","S","T","U","V","W","X","Y","Z" >>
LowerCs == << "a","b","c","d","e","f","g","h","i","j","k","l","m",
              "n","o","p","q","r","s","t","u","v","w","x","y","z" >>

char_lower(c) ==
    IF \E i \in 1..Len(UpperCs) : UpperCs[i] = c
    THEN LowerCs[CHOOSE i \in 1..Len(UpperCs) : UpperCs[i] = c]
    ELSE c

\* str.lower() on a sequence of characters
seq_lower(t) == [i \in 1..Len(t) |-> char_lower(t[i])]

\* s.lower()
str_lower(s) == [s EXCEPT !.text = seq_lower(s.text)]

\* `kw in t' for sequences of characters
seq_contains(kw, t) ==
    \E i \in 0..(Len(t) - Len(kw)) : SubSeq(t, i + 1, i + Len(kw)) = kw

\* `kw in s'
str_contains(kw, s) == seq_contains(kw, s.text)

-----------------------------------------------------------------------------
(* fetcher.py: is_blocked                                                  *)

BlockedMinLen == 500

BlockedStatuses == {403, 429, 503}

block_keywords ==
    << <<"A","c","c","e","s","s"," ","D","e","n","i","e","d">>,
       <<"4","0","3"," ","F","o","r","b","i","d","d","e","n">>,
       <<"A","t","t","e","n","t","i","o","n"," ","R","e","q","u","i","r","e","d">>,
       <<"C","l","o","u","d","f","l","a","r","e">>,
       <<"S","e","c","u","r","i","t","y"," ","C","h","e","c","k">>,
       <<"P","l","e","a","s","e"," ","v","e","r","i","f","y"," ","y","o","u"," ","a","r","e"," ","a"," ","h","u","m","a","n">>,
       <<"c","a","p","t","c","h","a">>,
       <<"b","l","o","c","k","e","d">> >>

\* the keyword loop of lines 148-151, from keyword number k on
RECURSIVE keyword_loop(_, _)
keyword_loop(html_lower, k) ==
    IF k > Len(block_keywords) THEN FALSE
    ELSE IF str_contains(seq_lower(block_keywords[k]), html_lower) THEN TRUE
    ELSE keyword_loop(html_lower, k + 1)

\* mutant: the body is compared with the keywords without being lowered
is_blocked_no_lower(h, status_code) ==
    IF status_code \in BlockedStatuses THEN TRUE
    ELSE IF str_len(h) < BlockedMinLen THEN TRUE
    ELSE keyword_loop(h, 1)

is_blocked(h, status_code) ==
    IF status_code \in BlockedStatuses THEN TRUE
    ELSE IF str_len(h) < BlockedMinLen THEN TRUE
    ELSE keyword_loop(str_lower(h), 1)

-----------------------------------------------------------------------------
(* Inputs: what the outside world can answer.                              *)

StaticMinLen == 1000

Texts ==
    { <<"H","e","l","l","o"," ","W","o","r","l","d">>,
      <<"A","C","C","E","S","S"," ","D","E","N","I","E","D">>,
      <<"E","r","r","o","r"," ","4","0","3"," ","f","o","r","b","i","d","d","e","n">>,
      <<"a","t","t","e","n","t","i","o","n"," ","R","E","Q","U","I","R","E","D">>,
      <<"C","l","o","u","d","F","l","a","r","e">>,
      <<"s","e","c","u","r","i","t","y"," ","c","h","e","c","k">>,
      <<"P","l","e","a","s","e"," ","V","e","r","i","f","y"," ","Y","o","u"," ","A","r","e"," ","A"," ","H","u","m","a","n">>,
      <<"r","e","C","A","P","T","C","H","A">>,
      <<"U","n","b","l","o","c","k","e","d">>,
      <<"c","a","p","t","c","h"," ","a">>,
      <<"b","l","o","c","k"," ","e","d">>,
      << >> }

\* two of them, for the tiers whose html is kept for the rest of the request
FewTexts ==
    { <<"H","e","l","l","o"," ","W","o","r","l","d">>,
      <<"r","e","C","A","P","T","C","H","A">> }

BodyLens(t) == {Len(t)} \cup Around(BlockedMinLen) \cup Around(StaticMinLen)

Bodies(d, ts) == UNION { { Body(d, t, n) : n \in BodyLens(t) } : t \in ts }

Statuses == {200, 404} \cup BlockedStatuses

NoResp == [status_code |-> 0, text |-> EmptyBody]

\* responses of the origin to the static GET
StaticResponses ==
    { [status_code |-> s, text |-> b] :
        s \in Statuses,
        b \in Bodies("live", Texts) }

\* documents the headless browser can capture
RenderedBodies ==
    { Body("live", t, n) : t \in FewTexts, n \in Around(BlockedMinLen) }

\* bodies the archive can answer with: any body, also an empty, a short or a
\* challenge page
ArchivedBodies ==
    { Body("snapshot", << >>, 0) }
    \cup { Body("snapshot", t, Len(t)) : t \in FewTexts }
    \cup { Body("snapshot", t, n) : t \in FewTexts, n \in (StaticMinLen + 1)..(StaticMinLen + Slack) }

\* answers to the download of the snapshot (line 270): any status, any body
ArchiveResponses ==
    { [status_code |-> s, text |-> b] : s \in Statuses, b \in ArchivedBodies }

-----------------------------------------------------------------------------
(* History of tier attempts.                                               *)

Attempt(t) == [tier |-> t, out |-> "running"]

\* the attempts with the outcome of the running (last) one recorded
Finish(att, o) == [att EXCEPT ![Len(att)].out = o]

NoFetch == [kind |-> "none", from_archive |-> FALSE, err |-> {}]

FetchOk(fa) == [kind |-> "ok", from_archive |-> fa, err |-> {}]

\* fetch_from_archive line 278: the message of the exception it raises, as
\* the set of its parts: the fixed text ("original site and archive both
\* inaccessible") and str(e) of the exception caught at line 276
archive_error(e) == {"origin_and_archive_failed", e}

FetchError(e) == [kind |-> "error", from_archive |-> FALSE, err |-> archive_error(e)]

-----------------------------------------------------------------------------
(* Strings produced by extraction and refinement: `len' characters of text *)
(* made by `by' out of document `doc'.  All empty strings are equal.       *)

EmptyStr == [by |-> "", doc |-> "", len |-> 0]

Str(b, d, n) == IF n = 0 THEN EmptyStr ELSE [by |-> b, doc |-> d, len |-> n]

NoCand == [title |-> "", content |-> EmptyStr]

SourceUrl == "url"   \* str(req.url)

NoResponse == [kind |-> "none", status |-> 0, detail |-> "", title |-> "",
               content |-> EmptyStr, source_url |-> "", document_type |-> "None"]

-----------------------------------------------------------------------------
Init ==
    /\ mode \in {"stream", "sync"}
    /\ client \in BOOLEAN
    /\ pc = "start"
    /\ site = "none"
    /\ resp = NoResp
    /\ html = EmptyBody
    /\ verdict = "none"
    /\ blocked = FALSE
    /\ attempts = << >>
    /\ producer = "none"
    /\ driver = "none"
    /\ browser = "none"
    /\ context = "none"
    /\ pending = "none"
    /\ fres = NoFetch
    /\ ran = << >>
    /\ cands = << >>
    /\ soupOk = "unknown"
    /\ xres = "none"
    /\ title = ""
    /\ content = EmptyStr
    /\ extracted = EmptyStr
    /\ refine = "none"
    /\ events = << >>
    /\ response = NoResponse

-----------------------------------------------------------------------------
(* fetcher.py: fetch_html (use_archive = False, as both routes call it)    *)

\* lines 71-77: the static GET; a transport error or timeout raises
StaticGet ==
    /\ pc = "fh_static"
    /\ attempts' = Append(attempts, Attempt("STATIC"))
    /\ \/ /\ pc' = "fh_except"
          /\ UNCHANGED << resp, html, producer >>
       \/ \E r \in StaticResponses :
            /\ resp' = r
            /\ html' = r.text
            /\ producer' = "STATIC"
            /\ pc' = "fh_static_check"
    /\ UNCHANGED << site, verdict, blocked, fres >>
    /\ UNCHANGED << pwVars, extractVars, handlerVars, cfgVars >>

\* line 80: is_blocked(html, resp.status_code)
StaticCheck ==
    /\ pc = "fh_static_check"
    /\ verdict' = IF is_blocked(html, resp.status_code) THEN "blocked" ELSE "clear"
    /\ pc' = "fh_static_branch"
    /\ UNCHANGED << site, resp, html, blocked, attempts, producer, fres >>
    /\ UNCHANGED << pwVars, extractVars, handlerVars, cfgVars >>

\* line 93: len(html) > 1000
static_long_enough(h) == str_len(h) > StaticMinLen

\* lines 80-95: blocked -> browser (line 82, inside the try); long enough ->
\* return; otherwise fall out of the try to line 102
StaticBranch ==
    /\ pc = "fh_static_branch"
    /\ IF verdict = "blocked"
       THEN /\ attempts' = Finish(attempts, "blocked")
            /\ pc' = "pw_enter"
            /\ site' = "try"
            /\ fres' = fres
       ELSE IF static_long_enough(html)
       THEN /\ attempts' = Finish(attempts, "ok")
            /\ pc' = "fh_return"
            /\ site' = site
            /\ fres' = FetchOk(FALSE)
       ELSE /\ attempts' = Finish(attempts, "short")
            /\ pc' = "pw_enter"
            /\ site' = "after"
            /\ fres' = fres
    /\ resp' = NoResp
    /\ verdict' = "none"
    /\ UNCHANGED << html, blocked, producer >>
    /\ UNCHANGED << pwVars, extractVars, handlerVars, cfgVars >>

\* mutant: the exception of the static tier is not caught and leaves fetch_html
StaticExceptPropagates ==
    /\ pc = "fh_except"
    /\ attempts' = IF attempts[Len(attempts)].out = "running"
                   THEN Finish(attempts, "raise") ELSE attempts
    /\ pc' = "fh_return"
    /\ site' = "after"
    /\ fres' = [kind |-> "error", from_archive |-> FALSE, err |-> {"static_error"}]
    /\ UNCHANGED << resp, html, verdict, blocked, producer >>
    /\ UNCHANGED << pwVars, extractVars, handlerVars, cfgVars >>

\* lines 97-98: except Exception of the try of lines 69-96; control goes on
\* at line 102
StaticExcept ==
    /\ pc = "fh_except"
    /\ attempts' = IF attempts[Len(attempts)].out = "running"
                   THEN Finish(attempts, "raise") ELSE attempts
    /\ pc' = "pw_enter"
    /\ site' = "after"
    /\ UNCHANGED << resp, html, verdict, blocked, producer, fres >>
    /\ UNCHANGED << pwVars, extractVars, handlerVars, cfgVars >>

-----------------------------------------------------------------------------
(* fetcher.py: fetch_with_playwright.  Every awaited call may raise.       *)

\* line 171: async with async_playwright() as p  (entering starts the driver)
PwEnter ==
    /\ pc = "pw_enter"
    /\ attempts' = Append(attempts, Attempt("RENDERED"))
    /\ \/ /\ driver' = "running"
          /\ pc' = "pw_launch"
       \/ /\ driver' = driver
          /\ pc' = "pw_except"
    /\ browser' = "none"
    /\ context' = "none"
    /\ pending' = "none"
    /\ UNCHANGED << site, resp, html, verdict, blocked, producer, fres >>
    /\ UNCHANGED << extractVars, handlerVars, cfgVars >>

\* lines 172-179: browser = await p.chromium.launch(...)
PwLaunch ==
    /\ pc = "pw_launch"
    /\ \/ /\ browser' = "open"
          /\ pending' = pending
          /\ pc' = "pw_new_context"
       \/ /\ browser' = browser
          /\ pending' = "raise"
          /\ pc' = "pw_exit"
    /\ UNCHANGED << driver, context >>
    /\ UNCHANGED << fetchVars, extractVars, handlerVars, cfgVars >>

\* lines 182-187: context = await browser.new_context(...)
PwNewContext ==
    /\ pc = "pw_new_context"
    /\ \/ /\ context' = "open"
          /\ pending' = pending
          /\ pc' = "pw_init_script"
       \/ /\ context' = context
          /\ pending' = "raise"
          /\ pc' = "pw_exit"
    /\ UNCHANGED << driver, browser >>
    /\ UNCHANGED << fetchVars, extractVars, handlerVars, cfgVars >>

\* lines 190-195: await context.add_init_script(...)
PwInitScript ==
    /\ pc = "pw_init_script"
    /\ \/ /\ pending' = pending
          /\ pc' = "pw_new_page"
       \/ /\ pending' = "raise"
          /\ pc' = "pw_exit"
    /\ UNCHANGED << driver, browser, context >>
    /\ UNCHANGED << fetchVars, extractVars, handlerVars, cfgVars >>

\* line 197: page = await context.new_page()
PwNewPage ==
    /\ pc = "pw_new_page"
    /\ \/ /\ pending' = pending
          /\ pc' = "pw_goto"
       \/ /\ pending' = "raise"
          /\ pc' = "pw_exit"
    /\ UNCHANGED << driver, browser, context >>
    /\ UNCHANGED << fetchVars, extractVars, handlerVars, cfgVars >>

\* lines 199-203: inside the inner try: await page.goto(...) (navigation
\* error or timeout raises), then the jittered sleep
PwGoto ==
    /\ pc = "pw_goto"
    /\ \/ /\ pending' = pending
          /\ pc' = "pw_content"
       \/ /\ pending' = "raise"
          /\ pc' = "pw_close_context"
    /\ UNCHANGED << driver, browser, context >>
    /\ UNCHANGED << fetchVars, extractVars, handlerVars, cfgVars >>

\* lines 205-213: html = await page.content(); blocked = is_blocked(html, 200);
\* return html, blocked  (the return runs the finally first)
PwContent ==
    /\ pc = "pw_content"
    /\ \/ \E b \in RenderedBodies :
            /\ html' = b
            /\ producer' = "RENDERED"
            /\ blocked' = is_blocked(b, 200)
            /\ pending' = "return"
       \/ /\ pending' = "raise"
          /\ UNCHANGED << html, producer, blocked >>
    /\ pc' = "pw_close_context"
    /\ UNCHANGED << driver, browser, context >>
    /\ UNCHANGED << site, resp, verdict, attempts, fres >>
    /\ UNCHANGED << extractVars, handlerVars, cfgVars >>

\* line 216 (finally): await context.close(); if it raises, line 217 is skipped
PwCloseContext ==
    /\ pc = "pw_close_context"
    /\ \/ /\ context' = "closed"
          /\ pending' = pending
          /\ pc' = "pw_close_browser"
       \/ /\ context' = context
          /\ pending' = "raise"
          /\ pc' = "pw_exit"
    /\ UNCHANGED << driver, browser >>
    /\ UNCHANGED << fetchVars, extractVars, handlerVars, cfgVars >>

\* line 217 (finally): await browser.close()
PwCloseBrowser ==
    /\ pc = "pw_close_browser"
    /\ \/ /\ browser' = "closed"
          /\ pending' = pending
       \/ /\ browser' = browser
          /\ pending' = "raise"
    /\ pc' = "pw_exit"
    /\ UNCHANGED << driver, context >>
    /\ UNCHANGED << fetchVars, extractVars, handlerVars, cfgVars >>

\* leaving the async with of line 171 stops the driver (which may raise); a
\* pending return completes, an exception goes to the except of line 219
PwExit ==
    /\ pc = "pw_exit"
    /\ driver' = "stopped"
    /\ \E exit_raises \in BOOLEAN :
         IF pending = "return" /\ ~exit_raises
         THEN /\ pc' = "pw_return"
              /\ attempts' = Finish(attempts, IF blocked THEN "blocked" ELSE "ok")
         ELSE /\ pc' = "pw_except"
              /\ attempts' = attempts
    /\ pending' = "none"
    /\ UNCHANGED << browser, context >>
    /\ UNCHANGED << site, resp, html, verdict, blocked, producer, fres >>
    /\ UNCHANGED << extractVars, handlerVars, cfgVars >>

\* lines 219-221: except Exception: return "", True
PwExcept ==
    /\ pc = "pw_except"
    /\ html' = EmptyBody
    /\ producer' = "none"
    /\ blocked' = TRUE
    /\ attempts' = Finish(attempts, "raise")
    /\ pc' = "pw_return"
    /\ UNCHANGED << site, resp, verdict, fres >>
    /\ UNCHANGED << pwVars, extractVars, handlerVars, cfgVars >>

\* fetch_html lines 82-90 (site "try") and 102-110 (site "after"):
\* html, blocked = await fetch_with_playwright(...); blocked -> archive,
\* else return html, False
PwReturn ==
    /\ pc = "pw_return"
    /\ IF blocked
       THEN /\ pc' = "ar_available"
            /\ fres' = fres
       ELSE /\ pc' = "fh_return"
            /\ fres' = FetchOk(FALSE)
    /\ UNCHANGED << site, resp, html, verdict, blocked, attempts, producer >>
    /\ UNCHANGED << pwVars, extractVars, handlerVars, cfgVars >>

-----------------------------------------------------------------------------
(* fetcher.py: fetch_from_archive                                          *)

\* reasons for which the archive tier fails
ArchiveQueryErrors == {"request_error", "no_snapshots", "not_available"}

\* lines 240-253: the availability query; the request or resp.json() may
\* raise, archived_snapshots may be empty, closest may be missing or unavailable
ArAvailable ==
    /\ pc = "ar_available"
    /\ attempts' = Append(attempts, Attempt("ARCHIVED"))
    /\ \/ /\ pc' = "ar_download"
          /\ fres' = fres
       \/ \E e \in ArchiveQueryErrors :
            /\ pc' = "ar_fail"
            /\ fres' = FetchError(e)
    /\ UNCHANGED << site, resp, html, verdict, blocked, producer >>
    /\ UNCHANGED << pwVars, extractVars, handlerVars, cfgVars >>

\* lines 256-274: download the snapshot; html = resp.text; return html
\* (no status check, no is_blocked)
ArDownload ==
    /\ pc = "ar_download"
    /\ \/ \E r \in ArchiveResponses :
            /\ resp' = r
            /\ html' = r.text
            /\ producer' = "ARCHIVED"
            /\ attempts' = Finish(attempts, "ok")
            /\ pc' = "ar_return"
            /\ fres' = fres
       \/ /\ pc' = "ar_fail"
          /\ fres' = FetchError("download_error")
          /\ UNCHANGED << resp, html, producer, attempts >>
    /\ UNCHANGED << site, verdict, blocked >>
    /\ UNCHANGED << pwVars, extractVars, handlerVars, cfgVars >>

\* lines 276-278: except Exception as e: raise Exception(...).  Raised into
\* fetch_html at line 87 it is inside the try of lines 69-96 and is caught at
\* line 97; raised at line 107 it leaves fetch_html.
ArFail ==
    /\ pc = "ar_fail"
    /\ attempts' = Finish(attempts, "fail")
    /\ IF site = "try"
       THEN /\ pc' = "fh_except"
            /\ fres' = NoFetch
       ELSE /\ pc' = "fh_return"
            /\ fres' = fres
    /\ UNCHANGED << site, resp, html, verdict, blocked, producer >>
    /\ UNCHANGED << pwVars, extractVars, handlerVars, cfgVars >>

\* mutant: the snapshot is returned without the archive flag
ArReturnUnflagged ==
    /\ pc = "ar_return"
    /\ fres' = FetchOk(FALSE)
    /\ pc' = "fh_return"
    /\ resp' = NoResp
    /\ UNCHANGED << site, html, verdict, blocked, attempts, producer >>
    /\ UNCHANGED << pwVars, extractVars, handlerVars, cfgVars >>

\* mutant: the snapshot is put through the blocking detector and refused
\* when it looks blocked
ArReturnChecked ==
    /\ pc = "ar_return"
    /\ fres' = IF is_blocked(html, resp.status_code)
               THEN FetchError("snapshot_blocked") ELSE FetchOk(TRUE)
    /\ pc' = "fh_return"
    /\ resp' = NoResp
    /\ UNCHANGED << site, html, verdict, blocked, attempts, producer >>
    /\ UNCHANGED << pwVars, extractVars, handlerVars, cfgVars >>

\* fetch_html lines 88 and 108: return html, True (the response of the
\* snapshot download was a local of fetch_from_archive)
ArReturn ==
    /\ pc = "ar_return"
    /\ fres' = FetchOk(TRUE)
    /\ pc' = "fh_return"
    /\ resp' = NoResp
    /\ UNCHANGED << site, html, verdict, blocked, attempts, producer >>
    /\ UNCHANGED << pwVars, extractVars, handlerVars, cfgVars >>

-----------------------------------------------------------------------------
(* extractor.py: the strategies.  The libraries are not modelled: what a   *)
(* library extracts is an input, what the code does with it is computed.   *)

StrategyMinLen == 100

ChainMinLen == 100

SelectorMinLen == 200

MinViableLen == 100

RefineMinLen == 200

Order == << "trafilatura", "newspaper", "readability", "beautifulsoup" >>

\* lengths of text a library can extract
ContentLens == {0} \cup Around(StrategyMinLen) \cup Around(SelectorMinLen)

\* lengths of the text of a whole page
FullTextLens == {0} \cup Around(MinViableLen) \cup {RefineMinLen + 1}

\* a text extracted from a document is no longer than the document
LensWithin(h) == { n \in ContentLens : n <= str_len(h) }

\* Python None as a title
NoneTitle == "None"

\* lines 60-80, 93-106, 121-138: an exception is swallowed and gives ("", "");
\* the extracted text is returned only if it has more than 100 characters
strategy_result(raises, t, c) ==
    IF raises THEN NoCand
    ELSE IF c.len > 0 /\ c.len > StrategyMinLen THEN [title |-> t, content |-> c]
    ELSE NoCand

Selectors == << "article", "main", "[role='main']", ".post-content", ".entry-content" >>

NoMatch == 0 - 1

\* what the selectors match in a page: for each selector the length of the
\* text of the element it selects, or NoMatch; at most two selectors match
SoupProfiles ==
    { p \in [1..Len(Selectors) -> {NoMatch, 0, 50, 250} \cup Around(SelectorMinLen)] :
        Cardinality({ k \in 1..Len(Selectors) : p[k] # NoMatch }) <= 2 }

\* lines 167-174: the body loop, from selector number k on, content being c
RECURSIVE selector_loop(_, _, _, _)
selector_loop(p, d, k, c) ==
    IF k > Len(Selectors) THEN c
    ELSE IF p[k] # NoMatch
         THEN IF p[k] > SelectorMinLen
              THEN Str(Selectors[k], d, p[k])
              ELSE selector_loop(p, d, k + 1, Str(Selectors[k], d, p[k]))
    ELSE selector_loop(p, d, k + 1, c)

\* lines 153-180: extract_with_beautifulsoup; an exception gives ("", "")
extract_with_beautifulsoup(raises, t, p, d) ==
    IF raises THEN NoCand
    ELSE [title |-> t, content |-> selector_loop(p, d, 1, EmptyStr)]

\* mutant: any non-empty content is accepted by the chain
chain_accepts_any(c) == c.len > 0

\* lines 30, 35, 40, 45: if content and len(content) > 100
chain_accepts(c) == c.len > 0 /\ c.len > ChainMinLen

\* one strategy of multi_strategy_extract has returned cand: return it if
\* accepted, else go on with the strategy at nextpc
ChainStep(name, cand, nextpc) ==
    /\ ran' = Append(ran, name)
    /\ cands' = Append(cands, cand)
    /\ IF chain_accepts(cand.content)
       THEN /\ xres' = "ok"
            /\ pc' = "x_return"
       ELSE /\ xres' = xres
            /\ pc' = nextpc

\* lines 29-31 and 54-80: trafilatura on html; the title is metadata.title,
\* which may be None
XTrafilatura ==
    /\ pc = "x_trafilatura"
    /\ \E raises \in BOOLEAN, t \in {"T", NoneTitle}, n \in LensWithin(html) :
         ChainStep("trafilatura",
                   strategy_result(raises, t, Str("trafilatura", html.doc, n)),
                   "x_newspaper")
    /\ UNCHANGED soupOk
    /\ UNCHANGED << fetchVars, pwVars, handlerVars, cfgVars >>

\* lines 34-36 and 83-106: newspaper downloads the url itself and parses that
XNewspaper ==
    /\ pc = "x_newspaper"
    /\ \E raises \in BOOLEAN, t \in {"T"}, n \in ContentLens :
         ChainStep("newspaper",
                   strategy_result(raises, t, Str("newspaper", "live", n)),
                   "x_readability")
    /\ UNCHANGED soupOk
    /\ UNCHANGED << fetchVars, pwVars, handlerVars, cfgVars >>

\* lines 39-41 and 109-138: readability on html
XReadability ==
    /\ pc = "x_readability"
    /\ \E raises \in BOOLEAN, t \in {"T"}, n \in LensWithin(html) :
         ChainStep("readability",
                   strategy_result(raises, t, Str("readability", html.doc, n)),
                   "x_beautifulsoup")
    /\ UNCHANGED soupOk
    /\ UNCHANGED << fetchVars, pwVars, handlerVars, cfgVars >>

\* lines 44-46 and 141-180: BeautifulSoup(html, "lxml") and the selectors
XBeautifulSoup ==
    /\ pc = "x_beautifulsoup"
    /\ \E ok \in {"ok", "raises"}, t \in {"", "T"}, p \in SoupProfiles :
         /\ \A k \in 1..Len(Selectors) : p[k] <= str_len(html)
         /\ soupOk' = ok
         /\ ChainStep("beautifulsoup",
                      extract_with_beautifulsoup(ok = "raises", t, p, html.doc),
                      "x_fallback")
    /\ UNCHANGED << fetchVars, pwVars, handlerVars, cfgVars >>

FallbackTitle == "title extraction failed"   \* the sentinel of line 51

\* lines 49-51: soup = BeautifulSoup(html, "lxml"); return sentinel,
\* soup.get_text(...)  -- outside any try
XFallback ==
    /\ pc = "x_fallback"
    /\ IF soupOk = "raises"
       THEN /\ xres' = "raise"
            /\ cands' = cands
       ELSE \E n \in { m \in FullTextLens : m <= str_len(html) } :
            /\ xres' = "ok"
            /\ cands' = Append(cands, [title |-> FallbackTitle,
                                       content |-> Str("get_text", html.doc, n)])
    /\ ran' = Append(ran, "fallback")
    /\ pc' = "x_return"
    /\ UNCHANGED soupOk
    /\ UNCHANGED << fetchVars, pwVars, handlerVars, cfgVars >>

-----------------------------------------------------------------------------
(* research_routes.py: ai_refine                                           *)

\* what the completion call of lines 103-113 does: "failed" (timeout, error,
\* malformed response: caught at line 114), "text" (a non-empty stripped
\* answer of n characters) or "empty" (an answer that strips to "")
RefineOutcomes == {"failed", "text", "empty"}

RefinedLens == {80}

\* lines 99-115
ai_refine(c, outcome, n) ==
    IF ~client \/ c.len < RefineMinLen THEN c
    ELSE IF outcome = "failed" THEN c
    ELSE IF outcome = "text" THEN Str("ai_refine", c.doc, n)
    ELSE EmptyStr

\* mutant: content of exactly 200 characters is refined too
wants_refine_from_200(c) == client /\ c.len >= RefineMinLen

\* lines 67 and 144: if _openai_client and len(content) > 200
wants_refine(c) == client /\ c.len > RefineMinLen

\* mutant: content of exactly 100 characters is refused too
insufficient_upto_100(c) == c.len = 0 \/ c.len <= MinViableLen

\* lines 63 and 137: if not content or len(content) < 100
insufficient(c) == c.len = 0 \/ c.len < MinViableLen

-----------------------------------------------------------------------------
(* research_routes.py: extract_structured_stream.generate                  *)

Ev(st, p) == [status |-> st, progress |-> p]

ErrorEv(m) == [status |-> "error", message |-> m]

DoneEv(t, c, fa) ==
    [status |-> "done", progress |-> 100,
     data |-> [title |-> t, content |-> c, source_url |-> SourceUrl,
               from_archive |-> fa]]

\* the progress events of lines 43, 50, 52 and 68

\* mutant: the archive notice is given a progress above that of parsing
ArchiveNoticeEvLate == Ev("archive_notice", 60)

CrawlingEv == Ev("crawling", 25)

ArchiveNoticeEv == Ev("archive_notice", 40)

ParsingEv == Ev("parsing", 50)

AiProcessingEv == Ev("ai_processing", 75)

LastCand == cands[Len(cands)]

\* multi_strategy_extract has returned: its locals are gone
ExtractLocalsGone ==
    /\ ran' = << >>
    /\ cands' = << >>
    /\ soupOk' = "unknown"
    /\ xres' = "none"

\* line 43: yield crawling; line 46: call fetch_html
GCrawling ==
    /\ pc = "start"
    /\ mode = "stream"
    /\ events' = Append(events, CrawlingEv)
    /\ pc' = "fh_static"
    /\ UNCHANGED << title, content, extracted, refine, response >>
    /\ UNCHANGED << fetchVars, pwVars, extractVars, cfgVars >>

\* line 46 raised: lines 87-92, yield error
GFetchError ==
    /\ pc = "fh_return"
    /\ mode = "stream"
    /\ fres.kind = "error"
    /\ events' = Append(events, ErrorEv(fres.err))
    /\ pc' = "done"
    /\ UNCHANGED << title, content, extracted, refine, response >>
    /\ UNCHANGED << fetchVars, pwVars, extractVars, cfgVars >>

\* lines 49-50: if from_archive: yield archive_notice
GArchiveNotice ==
    /\ pc = "fh_return"
    /\ mode = "stream"
    /\ fres.kind = "ok"
    /\ fres.from_archive
    /\ events' = Append(events, ArchiveNoticeEv)
    /\ pc' = "g_parsing"
    /\ UNCHANGED << title, content, extracted, refine, response >>
    /\ UNCHANGED << fetchVars, pwVars, extractVars, cfgVars >>

\* line 52: yield parsing; line 55: call multi_strategy_extract
GParsing ==
    /\ mode = "stream"
    /\ \/ pc = "g_parsing"
       \/ pc = "fh_return" /\ fres.kind = "ok" /\ ~fres.from_archive
    /\ events' = Append(events, ParsingEv)
    /\ pc' = "x_trafilatura"
    /\ UNCHANGED << title, content, extracted, refine, response >>
    /\ UNCHANGED << fetchVars, pwVars, extractVars, cfgVars >>

\* lines 55-67: title, content = the candidate; too short -> raise;
\* refinement wanted -> line 68, else line 78
GExtracted ==
    /\ pc = "x_return"
    /\ mode = "stream"
    /\ xres = "ok"
    /\ title' = LastCand.title
    /\ content' = LastCand.content
    /\ extracted' = LastCand.content
    /\ pc' = IF insufficient(LastCand.content) THEN "g_insufficient"
             ELSE IF wants_refine(LastCand.content) THEN "g_ai_processing"
             ELSE "g_done"
    /\ ExtractLocalsGone
    /\ UNCHANGED << refine, events, response >>
    /\ UNCHANGED << fetchVars, pwVars, cfgVars >>

\* the exception of line 55 (extraction raised) or of line 64 reaches
\* lines 87-92: yield error
GExtractError ==
    /\ mode = "stream"
    /\ \/ /\ pc = "x_return"
          /\ xres = "raise"
          /\ events' = Append(events, ErrorEv("parser_error"))
          /\ ExtractLocalsGone
       \/ /\ pc = "g_insufficient"
          /\ events' = Append(events, ErrorEv("extraction_failed"))
          /\ UNCHANGED extractVars
    /\ pc' = "done"
    /\ UNCHANGED << title, content, extracted, refine, response >>
    /\ UNCHANGED << fetchVars, pwVars, cfgVars >>

\* line 68: yield ai_processing
GAiProcessing ==
    /\ pc = "g_ai_processing"
    /\ events' = Append(events, AiProcessingEv)
    /\ pc' = "g_refine"
    /\ UNCHANGED << title, content, extracted, refine, response >>
    /\ UNCHANGED << fetchVars, pwVars, extractVars, cfgVars >>

\* lines 70-75: refined = ai_refine(content); if refined: content = refined
GRefine ==
    /\ pc = "g_refine"
    /\ \E o \in RefineOutcomes, n \in RefinedLens :
         LET refined == ai_refine(content, o, n)
         IN  /\ content' = IF refined.len > 0 THEN refined ELSE content
             /\ refine' = o
    /\ pc' = "g_done"
    /\ UNCHANGED << title, extracted, events, response >>
    /\ UNCHANGED << fetchVars, pwVars, extractVars, cfgVars >>

\* lines 78-85: yield done with the result
GDone ==
    /\ pc = "g_done"
    /\ events' = Append(events, DoneEv(title, content, fres.from_archive))
    /\ pc' = "done"
    /\ UNCHANGED << title, content, extracted, refine, response >>
    /\ UNCHANGED << fetchVars, pwVars, extractVars, cfgVars >>

-----------------------------------------------------------------------------
(* research_routes.py: extract_structured                                  *)

HttpError(st, d) ==
    [kind |-> "error", status |-> st, detail |-> d, title |-> "",
     content |-> EmptyStr, source_url |-> "", document_type |-> "None"]

\* line 126: call fetch_html
SStart ==
    /\ pc = "start"
    /\ mode = "sync"
    /\ pc' = "fh_static"
    /\ UNCHANGED << fetchVars, pwVars, extractVars, handlerVars, cfgVars >>

\* mutant: the failure of fetch_html is swallowed and extraction is called
SFetchedUnchecked ==
    /\ pc = "fh_return"
    /\ mode = "sync"
    /\ response' = response
    /\ pc' = "x_trafilatura"
    /\ UNCHANGED << title, content, extracted, refine, events >>
    /\ UNCHANGED << fetchVars, pwVars, extractVars, cfgVars >>

\* line 126: fetch_html raised -> lines 165-169, HTTP 500; it returned ->
\* line 129, call multi_strategy_extract
SFetched ==
    /\ pc = "fh_return"
    /\ mode = "sync"
    /\ IF fres.kind = "error"
       THEN /\ response' = HttpError(500, fres.err)
            /\ pc' = "done"
       ELSE /\ response' = response
            /\ pc' = "x_trafilatura"
    /\ UNCHANGED << title, content, extracted, refine, events >>
    /\ UNCHANGED << fetchVars, pwVars, extractVars, cfgVars >>

\* lines 129-144: extraction raised -> HTTP 500; content too short -> HTTP 422
\* (re-raised at lines 163-164); refinement wanted -> line 145, else line 150
SExtracted ==
    /\ pc = "x_return"
    /\ mode = "sync"
    /\ IF xres = "raise"
       THEN /\ response' = HttpError(500, "parser_error")
            /\ pc' = "done"
            /\ UNCHANGED << title, content, extracted >>
       ELSE /\ title' = LastCand.title
            /\ content' = LastCand.content
            /\ extracted' = LastCand.content
            /\ IF insufficient(LastCand.content)
               THEN /\ response' = HttpError(422, "extraction_failed")
                    /\ pc' = "done"
               ELSE /\ response' = response
                    /\ pc' = IF wants_refine(LastCand.content)
                             THEN "s_refine" ELSE "s_respond"
    /\ ExtractLocalsGone
    /\ UNCHANGED << refine, events >>
    /\ UNCHANGED << fetchVars, pwVars, cfgVars >>

\* lines 145-147: content = ai_refine(content)
SRefine ==
    /\ pc = "s_refine"
    /\ \E o \in RefineOutcomes, n \in RefinedLens :
         /\ content' = ai_refine(content, o, n)
         /\ refine' = o
    /\ pc' = "s_respond"
    /\ UNCHANGED << title, extracted, events, response >>
    /\ UNCHANGED << fetchVars, pwVars, extractVars, cfgVars >>

\* lines 150-161: build ExtractStructuredResp (title: str is validated: a
\* None title raises, caught at line 165 -> HTTP 500); set document_type
SRespond ==
    /\ pc = "s_respond"
    /\ response' =
         IF title = NoneTitle THEN HttpError(500, "validation_error")
         ELSE [kind |-> "ok", status |-> 200, detail |-> "", title |-> title,
               content |-> content, source_url |-> SourceUrl,
               document_type |-> IF fres.from_archive THEN "archived_version"
                                 ELSE "None"]
    /\ pc' = "done"
    /\ UNCHANGED << title, content, extracted, refine, events >>
    /\ UNCHANGED << fetchVars, pwVars, extractVars, cfgVars >>

-----------------------------------------------------------------------------
Fetch ==
    \/ StaticGet \/ StaticCheck \/ StaticBranch \/ StaticExcept
    \/ PwEnter \/ PwLaunch \/ PwNewContext \/ PwInitScript \/ PwNewPage
    \/ PwGoto \/ PwContent \/ PwCloseContext \/ PwCloseBrowser \/ PwExit
    \/ PwExcept \/ PwReturn
    \/ ArAvailable \/ ArDownload \/ ArFail \/ ArReturn

Extract ==
    XTrafilatura \/ XNewspaper \/ XReadability \/ XBeautifulSoup \/ XFallback

Stream ==
    \/ GCrawling \/ GFetchError \/ GArchiveNotice \/ GParsing \/ GExtracted
    \/ GExtractError \/ GAiProcessing \/ GRefine \/ GDone

Sync == SStart \/ SFetched \/ SExtracted \/ SRefine \/ SRespond

Next == Fetch \/ Extract \/ Stream \/ Sync

Spec == Init /\ [][Next]_vars

-----------------------------------------------------------------------------
(* Properties.                                                             *)

TierRank(t) == CASE t = "STATIC" -> 1 [] t = "RENDERED" -> 2 [] t = "ARCHIVED" -> 3

Attempted(t) == \E i \in 1..Len(attempts) : attempts[i].tier = t

AttemptedWith(t, o) ==
    \E i \in 1..Len(attempts) : attempts[i].tier = t /\ attempts[i].out = o

\* C1: within one call of fetch_html the tiers are attempted in the order
\* STATIC, RENDERED, ARCHIVED, each at most once, and no earlier tier is
\* attempted after a later one.
C1_LinearEscalation ==
    \A i, j \in 1..Len(attempts) :
        i < j => TierRank(attempts[i].tier) < TierRank(attempts[j].tier)

\* C2: when fetch_html ends, it ends in an acquisition error if and only if
\* the ARCHIVED tier was attempted and failed in that call.
C2_ErrorIffArchiveFailed ==
    pc = "fh_return" =>
        (AttemptedWith("ARCHIVED", "fail") <=> fres.kind = "error")

\* C3: when fetch_html ends after the STATIC tier answered a clear body of
\* more than 1000 characters, it returns that body, not from the archive, and
\* neither RENDERED nor ARCHIVED was attempted; when it ends after the RENDERED
\* tier captured clear content, it returns that content, not from the archive,
\* and ARCHIVED was not attempted.
C3_ShortCircuit ==
    pc = "fh_return" =>
        /\ AttemptedWith("STATIC", "ok") =>
             /\ fres = FetchOk(FALSE)
             /\ producer = "STATIC"
             /\ ~Attempted("RENDERED")
             /\ ~Attempted("ARCHIVED")
        /\ AttemptedWith("RENDERED", "ok") =>
             /\ fres = FetchOk(FALSE)
             /\ producer = "RENDERED"
             /\ ~Attempted("ARCHIVED")

ClaimKeywords ==
    { <<"a","c","c","e","s","s"," ","d","e","n","i","e","d">>,
      <<"4","0","3"," ","f","o","r","b","i","d","d","e","n">>,
      <<"a","t","t","e","n","t","i","o","n"," ","r","e","q","u","i","r","e","d">>,
      <<"c","l","o","u","d","f","l","a","r","e">>,
      <<"s","e","c","u","r","i","t","y"," ","c","h","e","c","k">>,
      <<"p","l","e","a","s","e"," ","v","e","r","i","f","y"," ","y","o","u"," ","a","r","e"," ","a"," ","h","u","m","a","n">>,
      <<"c","a","p","t","c","h","a">>,
      <<"b","l","o","c","k","e","d">> }

BlockedAsClaimed(h, st) ==
    \/ st \in {403, 429, 503}
    \/ str_len(h) < 500
    \/ \E kw \in ClaimKeywords : seq_contains(kw, seq_lower(h.text))

\* C4: is_blocked answers true exactly when the status is 403, 429 or 503, or
\* the body has fewer than 500 characters, or the body contains one of the
\* eight keywords, upper and lower case not distinguished; checked on the
\* answer to the static response (line 80) and to the rendered page (line 208).
C4_IsBlocked ==
    /\ pc = "fh_static_branch" =>
         ((verdict = "blocked") <=> BlockedAsClaimed(resp.text, resp.status_code))
    /\ (pc = "pw_close_context" /\ pending = "return") =>
         (blocked <=> BlockedAsClaimed(html, 200))

\* a page of 500 characters or more, status 200, blocked by a keyword that
\* is written in another case than in the list
C4_Witness ==
    /\ pc = "fh_static_branch"
    /\ verdict = "blocked"
    /\ resp.status_code = 200
    /\ str_len(resp.text) >= 500
    /\ resp.text.text = <<"r","e","C","A","P","T","C","H","A">>

HasProgress(e) == "progress" \in DOMAIN e

Terminal(e) == e.status \in {"done", "error"}

Emitted(st) == \E i \in 1..Len(events) : events[i].status = st

\* C5: in streaming mode the progress values of the events are
\* non-decreasing; a DONE or ERROR event is the last event; the generator goes
\* on until it has yielded one, and stops then.
C5_StreamTerminates ==
    /\ \A i, j \in 1..Len(events) :
         (i < j /\ HasProgress(events[i]) /\ HasProgress(events[j]))
            => events[i].progress <= events[j].progress
    /\ \A i \in 1..Len(events) : Terminal(events[i]) => i = Len(events)
    /\ mode = "stream" =>
         /\ pc = "done" <=> (Len(events) > 0 /\ Terminal(events[Len(events)]))
         /\ pc = "done" <=> ~ENABLED Next

\* a stream that ends in ERROR after CRAWLING, ARCHIVE_NOTICE and PARSING
C5_Witness ==
    /\ mode = "stream"
    /\ pc = "done"
    /\ Len(events) = 4
    /\ events[2].status = "archive_notice"
    /\ events[4].status = "error"

IsPrefix(u, v) == Len(u) <= Len(v) /\ SubSeq(v, 1, Len(u)) = u

Shape(e) == << e.status, IF HasProgress(e) THEN e.progress ELSE 0 - 1 >>

FullStream(an, ai) ==
    << <<"crawling", 25>> >>
    \o (IF an THEN << <<"archive_notice", 40>> >> ELSE << >>)
    \o << <<"parsing", 50>> >>
    \o (IF ai THEN << <<"ai_processing", 75>> >> ELSE << >>)
    \o << <<"done", 100>> >>

\* the events before a closing ERROR event
BeforeError ==
    IF Len(events) > 0 /\ events[Len(events)].status = "error"
    THEN SubSeq(events, 1, Len(events) - 1) ELSE events

\* C6: the events are a prefix of CRAWLING(25), [ARCHIVE_NOTICE(40)],
\* PARSING(50), [AI_PROCESSING(75)], DONE(100), possibly followed by one ERROR;
\* ARCHIVE_NOTICE is there iff acquisition succeeded with html of the ARCHIVED
\* tier; AI_PROCESSING is there iff a client is configured and the extracted
\* content has more than 200 characters; DONE carries the final result.
C6_EventOrder ==
    /\ \E an, ai \in BOOLEAN :
         IsPrefix([i \in 1..Len(BeforeError) |-> Shape(BeforeError[i])],
                  FullStream(an, ai))
    /\ (mode = "stream" /\ (Emitted("parsing") \/ pc = "done")) =>
         (Emitted("archive_notice") <=> (fres.kind = "ok" /\ producer = "ARCHIVED"))
    /\ (mode = "stream" /\ pc = "done") =>
         (Emitted("ai_processing") <=> (client /\ extracted.len > 200))
    /\ \A i \in 1..Len(events) :
         events[i].status = "done" =>
            /\ events[i].data.title = title
            /\ events[i].data.source_url = "url"
            /\ events[i].data.from_archive = (producer = "ARCHIVED")
            /\ IF refine = "text"
               THEN events[i].data.content.by = "ai_refine"
               ELSE events[i].data.content = extracted

\* a stream with all five events, both optional ones included
C6_Witness ==
    /\ mode = "stream"
    /\ pc = "done"
    /\ Len(events) = 5
    /\ events[5].status = "done"

\* C7: multi_strategy_extract always returns a candidate; no exception
\* reaches its caller.
C7_NeverRaises == pc = "x_return" => (xres = "ok" /\ Len(cands) > 0)

ChainOrder == << "trafilatura", "newspaper", "readability", "beautifulsoup", "fallback" >>

Accepted(c) == c.content.len > 100

MadeBy(name, c) ==
    \/ c.content.len = 0
    \/ name = "beautifulsoup" /\ \E k \in 1..Len(Selectors) : c.content.by = Selectors[k]
    \/ name = "fallback" /\ c.content.by = "get_text"
    \/ name \notin {"beautifulsoup", "fallback"} /\ c.content.by = name

C8_Inv ==
    /\ IsPrefix(ran, ChainOrder)
    /\ \A i \in 1..Len(cands) : MadeBy(ran[i], cands[i])
    /\ \A i \in 1..Len(cands) : i < Len(ran) => ~Accepted(cands[i])
    /\ pc \in {"x_newspaper", "x_readability", "x_beautifulsoup", "x_fallback"} =>
         \A i \in 1..Len(cands) : ~Accepted(cands[i])
    /\ (pc = "x_return" /\ xres = "ok" /\ Len(ran) <= 4) =>
         (Len(cands) = Len(ran) /\ Accepted(cands[Len(ran)]))
    /\ (/\ Len(cands) >= 4
        /\ \A i \in 1..3 : cands[i].content.len < 100
        /\ cands[4].content = [by |-> "article", doc |-> html.doc, len |-> 250]) =>
         (pc = "x_return" /\ xres = "ok" /\ Len(cands) = 4)

C8_Step ==
    (pc = "x_return" /\ xres = "ok" /\ pc' # "x_return") =>
        (title' = cands[Len(cands)].title /\ content' = cands[Len(cands)].content)

\* C8: the strategies run in the order trafilatura, newspaper, readability,
\* selectors (then the fallback); a strategy runs only while no earlier one was
\* accepted; the chain returns as soon as one is accepted, and its caller gets
\* exactly that candidate; with nothing from the first three and 250
\* characters under the article selector, that selector text is returned.
C8_FirstAccepted == []C8_Inv /\ [][C8_Step]_vars

\* the chain returns the 250 characters of the article selector
C8_Witness ==
    /\ pc = "x_return"
    /\ xres = "ok"
    /\ Len(ran) = 4
    /\ cands[4].content = [by |-> "article", doc |-> html.doc, len |-> 250]

\* C9: a candidate returned by one of the first three strategies has more
\* than 100 characters, and one returned by the fourth strategy has more than
\* 200 characters of selector-matched text.
C9_StrategyMinimum ==
    (pc = "x_return" /\ xres = "ok") =>
        /\ Len(ran) <= 3 => cands[Len(cands)].content.len > 100
        /\ Len(ran) = 4 => cands[Len(cands)].content.len > 200

\* C10: when fetch_with_playwright returns, no browser and no browsing
\* context it created is left open.
C10_BrowserClosed == pc = "pw_return" => (browser # "open" /\ context # "open")

-----------------------------------------------------------------------------
\* C11: whenever fetch_html returns successfully, from whichever tier, the
\* html it returns is not empty.
C11_NonEmptyHtml ==
    (pc = "fh_return" /\ fres.kind = "ok") => str_len(html) > 0

-----------------------------------------------------------------------------
C12_Short(c) == c.len = 0 \/ c.len < 100

\* what follows the return of the extraction chain
C12_Step ==
    /\ (pc = "x_return" /\ xres = "ok") =>
         IF C12_Short(cands[Len(cands)].content)
         THEN /\ refine' = "none"
              /\ mode = "sync" =>
                   /\ pc' = "done"
                   /\ response'.kind = "error"
                   /\ response'.status = 422
              /\ mode = "stream" => pc' = "g_insufficient"
         ELSE /\ pc' \notin {"done", "g_insufficient"}
              /\ response'.kind = "none"
    /\ pc = "g_insufficient" =>
         /\ pc' = "done"
         /\ Len(events') = Len(events) + 1
         /\ events'[Len(events')].status = "error"
         /\ refine' = "none"

C12_Inv ==
    /\ pc = "g_insufficient" =>
         /\ mode = "stream"
         /\ C12_Short(extracted)
         /\ refine = "none"
         /\ ~Emitted("ai_processing")
         /\ ~Emitted("done")
    /\ response.status = 422 =>
         /\ mode = "sync"
         /\ response.kind = "error"
         /\ C12_Short(extracted)
         /\ fres.kind = "ok"
         /\ refine = "none"
    /\ (pc = "done" /\ fres.kind = "ok" /\ C12_Short(extracted)) =>
         /\ refine = "none"
         /\ response.kind # "ok"
         /\ ~Emitted("done")

\* C12: when the content that extraction returned is empty or has fewer than
\* 100 characters, a synchronous request ends with HTTP 422 (not 500) and a
\* streaming request ends with an error event, and in neither is refinement
\* invoked or a success produced; when the content has 100 characters or
\* more, this error does not occur.
C12_Insufficient == []C12_Inv /\ [][C12_Step]_vars

\* a synchronous request was answered 422 for 99 characters of content
C12_Witness ==
    /\ pc = "done"
    /\ mode = "sync"
    /\ response.status = 422
    /\ extracted.len = 99

-----------------------------------------------------------------------------
\* the request ended in success with content c
C13_SucceededWith(c) ==
    IF mode = "stream"
    THEN /\ events[Len(events)].status = "done"
         /\ events[Len(events)].data.content = c
    ELSE /\ response.kind = "ok"
         /\ response.content = c

\* C13: when the refinement call fails (times out, raises, answers with a
\* malformed or an empty response), the request still ends in success, in
\* either mode, and its final content is the extracted content unchanged.
C13_RefineRecovered ==
    (pc = "done" /\ refine \in {"failed", "empty"} /\ title # NoneTitle) =>
        C13_SucceededWith(extracted)

-----------------------------------------------------------------------------
\* C14: the from_archive flag that fetch_html returns is true exactly when
\* the html it returns was produced by the ARCHIVED tier, and what the caller
\* is shown equals the flag: from_archive in the data of the done event, and
\* document_type = "archived_version" in the synchronous response exactly
\* when the flag is true.
C14_Provenance ==
    /\ fres.kind = "ok" =>
         /\ fres.from_archive <=> producer = "ARCHIVED"
         /\ fres.from_archive <=> html.doc = "snapshot"
    /\ \A i \in 1..Len(events) :
         events[i].status = "done" =>
            /\ events[i].data.from_archive = fres.from_archive
            /\ events[i].data.from_archive <=> producer = "ARCHIVED"
    /\ response.kind = "ok" =>
         /\ response.document_type = "archived_version" <=> fres.from_archive
         /\ response.document_type = "archived_version" <=> producer = "ARCHIVED"
         /\ response.document_type \in {"archived_version", "None"}

\* a synchronous response built from a snapshot, after the browser tier ran
C14_Witness ==
    /\ pc = "done"
    /\ response.kind = "ok"
    /\ response.document_type = "archived_version"
    /\ producer = "ARCHIVED"
    /\ AttemptedWith("RENDERED", "blocked")

-----------------------------------------------------------------------------
ArchiveReasons == ArchiveQueryErrors \cup {"download_error"}

\* C15: when fetch_html raises the acquisition error, its message carries
\* the reason for which the original site failed (why the STATIC and the
\* RENDERED tier failed) and the reason for which the archive failed.
C15_BothReasons ==
    (pc = "fh_return" /\ fres.kind = "error") =>
        /\ \E e \in ArchiveReasons : e \in fres.err
        /\ \E i \in 1..Len(attempts) :
             /\ attempts[i].tier \in {"STATIC", "RENDERED"}
             /\ attempts[i].out \in fres.err

-----------------------------------------------------------------------------
\* positions inside fetch_html, inside multi_strategy_extract, at the
\* refinement, and everything after the return of the extraction
AcquisitionPcs ==
    { "fh_static", "fh_static_check", "fh_static_branch", "fh_except",
      "pw_enter", "pw_launch", "pw_new_context", "pw_init_script",
      "pw_new_page", "pw_goto", "pw_content", "pw_close_context",
      "pw_close_browser", "pw_exit", "pw_except", "pw_return",
      "ar_available", "ar_download", "ar_fail", "ar_return" }

ExtractionPcs ==
    { "x_trafilatura", "x_newspaper", "x_readability", "x_beautifulsoup",
      "x_fallback", "x_return" }

RefinementPcs == { "g_ai_processing", "g_refine", "s_refine" }

AfterExtractionPcs ==
    RefinementPcs \cup { "g_insufficient", "g_done", "s_respond", "done" }

C17_Inv ==
    /\ pc \in AcquisitionPcs =>
         /\ fres.kind # "ok"
         /\ ran = << >>
         /\ extracted = EmptyStr
         /\ refine = "none"
    /\ pc \in ExtractionPcs =>
         /\ fres.kind = "ok"
         /\ refine = "none"
    /\ (pc \in RefinementPcs \/ refine # "none") =>
         /\ fres.kind = "ok"
         /\ xres = "none"
         /\ extracted.len >= 100

C17_Step ==
    /\ attempts' # attempts =>
         (pc \in AcquisitionPcs /\ ran = << >> /\ extracted = EmptyStr)
    /\ (ran' # ran /\ ran' # << >>) => fres.kind = "ok"
    /\ refine' # refine =>
         (pc \in RefinementPcs /\ extracted.len >= 100 /\ ran = << >>)
    /\ pc \in ExtractionPcs => pc' \in ExtractionPcs \cup AfterExtractionPcs
    /\ pc \in AfterExtractionPcs => pc' \in AfterExtractionPcs

\* C17: within one request, in either mode, extraction is started only
\* after fetch_html has returned successfully, refinement is started only
\* after extraction has returned content that passed the 100-character test,
\* and once extraction has started no acquisition tier is attempted.
C17_Ordering == []C17_Inv /\ [][C17_Step]_vars

\* a synchronous request that went through the three stages, two tiers tried
C17_Witness ==
    /\ pc = "done"
    /\ mode = "sync"
    /\ response.kind = "ok"
    /\ refine = "text"
    /\ Len(attempts) >= 2

-----------------------------------------------------------------------------
RenderedPcs ==
    { "pw_enter", "pw_launch", "pw_new_context", "pw_init_script",
      "pw_new_page", "pw_goto", "pw_content", "pw_close_context",
      "pw_close_browser", "pw_exit", "pw_except", "pw_return" }

C18_Failed(att) ==
    \/ att.tier = "STATIC" /\ att.out \in {"raise", "blocked", "short"}
    \/ att.tier = "RENDERED" /\ att.out \in {"raise", "blocked"}

C18_NextTier(t) == IF t = "STATIC" THEN "RENDERED" ELSE "ARCHIVED"

C18_Inv ==
    /\ \A i \in 1..Len(attempts) :
         C18_Failed(attempts[i]) =>
            IF i < Len(attempts)
            THEN attempts[i + 1].tier = C18_NextTier(attempts[i].tier)
            ELSE pc \in AcquisitionPcs
    /\ fres.kind = "error" =>
         /\ attempts # << >>
         /\ attempts[Len(attempts)].tier = "ARCHIVED"

C18_Step ==
    /\ pc = "fh_static" => pc' \in {"fh_except", "fh_static_check"}
    /\ (pc = "fh_static_branch" /\ (verdict = "blocked" \/ str_len(html) <= 1000)) =>
         pc' = "pw_enter"
    /\ pc = "fh_except" => pc' = "pw_enter"
    /\ pc = "pw_enter" => attempts' = Append(attempts, Attempt("RENDERED"))
    /\ pc \in RenderedPcs \ {"pw_return"} => pc' \in RenderedPcs
    /\ pc = "pw_except" => (pc' = "pw_return" /\ blocked')
    /\ (pc = "pw_return" /\ blocked) => pc' = "ar_available"
    /\ pc = "ar_available" => attempts' = Append(attempts, Attempt("ARCHIVED"))
    /\ (pc' = "fh_return" /\ fres'.kind = "error") => pc = "ar_fail"

\* C18: when the STATIC tier raises, times out, is classified blocked or
\* answers a clear body of 1000 characters or fewer, the RENDERED tier is
\* attempted next; when the RENDERED tier raises, times out or captures
\* content classified blocked, the ARCHIVED tier is attempted next; no
\* exception of the STATIC or the RENDERED tier leaves fetch_html.
C18_Escalation == []C18_Inv /\ [][C18_Step]_vars

\* a clear static body of 1000 characters or fewer, then the browser raised,
\* then the archive
C18_Witness ==
    /\ pc = "fh_return"
    /\ Len(attempts) = 3
    /\ attempts[1] = [tier |-> "STATIC", out |-> "short"]
    /\ attempts[2] = [tier |-> "RENDERED", out |-> "raise"]
    /\ attempts[3].tier = "ARCHIVED"

-----------------------------------------------------------------------------
C19_Inv ==
    /\ pc = "ar_return" =>
         /\ html = resp.text
         /\ attempts[Len(attempts)] = [tier |-> "ARCHIVED", out |-> "ok"]
    /\ (pc \notin AcquisitionPcs /\ AttemptedWith("ARCHIVED", "ok")) =>
         /\ fres = FetchOk(TRUE)
         /\ producer = "ARCHIVED"
         /\ html.doc = "snapshot"
         /\ attempts[Len(attempts)] = [tier |-> "ARCHIVED", out |-> "ok"]

C19_Step ==
    /\ (pc = "ar_download" /\ pc' # "ar_fail") =>
         /\ pc' = "ar_return"
         /\ verdict' = verdict
         /\ blocked' = blocked
    /\ pc = "ar_return" =>
         /\ pc' = "fh_return"
         /\ fres' = FetchOk(TRUE)
         /\ html' = html
         /\ attempts' = attempts
         /\ verdict' = verdict
         /\ blocked' = blocked

\* C19: whenever the archive index reports an available closest snapshot and
\* the download of the snapshot returns, fetch_html returns the body of the
\* snapshot, flagged as from the archive, whatever its status code, length or
\* keywords; the blocking detector is not run on it and no further tier is
\* attempted.
C19_ArchiveUnchecked == []C19_Inv /\ [][C19_Step]_vars

\* fetch_html returned a snapshot of more than 1000 characters that the
\* blocking detector would refuse
C19_Witness ==
    /\ pc = "fh_return"
    /\ fres = FetchOk(TRUE)
    /\ html.doc = "snapshot"
    /\ str_len(html) > 1000
    /\ is_blocked(html, 200)

-----------------------------------------------------------------------------
\* the outcomes of the request's calls: what acquisition, extraction and
\* refinement answered, whichever handler asked
C20_OutcomesSucceed == fres.kind = "ok" /\ extracted.len >= 100

C20_OutcomesResult ==
    [title |-> title,
     content |-> IF refine = "text" THEN content ELSE extracted,
     source_url |-> SourceUrl,
     archived |-> fres.from_archive]

\* what the caller of the handler is given
C20_Succeeded ==
    IF mode = "stream"
    THEN events # << >> /\ events[Len(events)].status = "done"
    ELSE response.kind = "ok"

C20_Result ==
    IF mode = "stream"
    THEN [title |-> events[Len(events)].data.title,
          content |-> events[Len(events)].data.content,
          source_url |-> events[Len(events)].data.source_url,
          archived |-> events[Len(events)].data.from_archive]
    ELSE [title |-> response.title,
          content |-> response.content,
          source_url |-> response.source_url,
          archived |-> response.document_type = "archived_version"]

\* C20: the two modes give the same result for the same outcomes: whether a
\* request succeeds, and the title, content, source URL and archive
\* indication of its result, are determined by the outcomes of acquisition,
\* extraction and refinement alone, the same way in the synchronous mode
\* (success response) as in the streaming mode (done event).
C20_SameResult ==
    pc = "done" =>
        /\ C20_Succeeded <=> C20_OutcomesSucceed
        /\ C20_Succeeded => C20_Result = C20_OutcomesResult

-----------------------------------------------------------------------------
\* the content of the result the caller is given
C21_ResultContent ==
    IF mode = "stream" THEN events[Len(events)].data.content
    ELSE response.content

\* C21: the content (and with it the title, which comes with the same
\* candidate) of every successful result was extracted from the html that
\* fetch_html returned for the request; in particular, the content of a
\* result reported as coming from the archive was derived from the snapshot
\* and not from a separate fetch of the live URL.
C21_ExtractedFromHtml ==
    (pc = "done" /\ C20_Succeeded) =>
        /\ extracted.doc = html.doc
        /\ C21_ResultContent.len > 0 => C21_ResultContent.doc = html.doc
        /\ fres.from_archive =>
             (html.doc = "snapshot" /\ extracted.doc = "snapshot")

====
